---- MODULE Spec2Model ----
(***************************************************************************)
(* Model of the NexusAI chat client (frontend/src/app/page.tsx): the React *)
(* state of the Home component, its chat-management handlers, and the      *)
(* sendMessage stream consumer with its fetch / read loop.                 *)
(*                                                                         *)
(* Strings are sequences of one-character strings, so that concatenation   *)
(* (\o), slice and trim are computed as the code computes them.            *)
(* Every action is one event-loop task: an event handler, a timer          *)
(* callback, or the continuation of sendMessage after one await.  React    *)
(* re-renders between tasks, so a handler invoked from the page reads the  *)
(* current state, while a callback created earlier (the retry timer, the   *)
(* key-down listener registered once) reads the state it captured.         *)
(***************************************************************************)
EXTENDS Integers, Sequences, FiniteSets, TLC

----------------------------------------------------------------------------
(* Bounds of the model *)

(* MaxWork bounds the chats created, the sendMessage calls that pass their
   guards and the lines the server sends, counted together; MaxPieces the
   lines one read delivers; MaxTimers the retry timers pending at once. *)
MaxWork == 4
MaxPieces == 2
MaxTimers == 1

(* MaxFormatLen bounds the length of the short texts formatMessage is applied to *)
MaxFormatLen == 3

----------------------------------------------------------------------------
(* Program constants *)

TitleLen == 40
PreviewLen == 100

Null == 0

NoTool == "null"
Searching == "Searching the web..."

NewChatTitle == <<"N", "e", "w", " ", "C", "h", "a", "t">>

(* The fixed error string of the catch block.  Its first character is the
   cross-mark emoji, written "X" here (module text is ASCII). *)
ErrorText == <<"X", " ", "S", "o", "r", "r", "y", ",", " ", "I", " ", "e", "n", "c", "o", "u", "n", "t", "e", "r", "e", "d", " ", "a", "n", " ", "e", "r", "r", "o", "r", ".", " ", "P", "l", "e", "a", "s", "e", " ", "t", "r", "y", " ", "a", "g", "a", "i", "n", ".">>

(* A prompt one character longer than a chat title *)
Prompt == [i \in 1..(TitleLen + 1) |-> IF i = 1 THEN "h" ELSE IF i <= TitleLen THEN "i" ELSE "!"]

(* Texts the user can have in the textarea: nothing, white space only, and
   the prompt with white space around it *)
Inputs == { <<>>, <<" ">>, <<" ">> \o Prompt \o <<" ">> }

(* MODELS: the selectable models, by position in the list *)
MODELS ==
    << [id |-> "gpt-4o-mini", supports_vision |-> TRUE],
       [id |-> "gpt-4o", supports_vision |-> TRUE],
       [id |-> "gpt-4-turbo", supports_vision |-> TRUE],
       [id |-> "o1-mini", supports_vision |-> FALSE] >>

(* The chunk values a frame can carry; <<>> stands for an absent chunk *)
NoChunk == <<>>
ChunkVals == { <<"H", "e">>, <<"l", "l", "o">> }

----------------------------------------------------------------------------
(* State *)

VARIABLES mounted, messages, input, isLoading, toolStatus, chats,
          currentChatId, imageFile, streams, timers, created, linesSent, crashed,
          currentModel, formatted

vars == <<mounted, messages, input, isLoading, toolStatus, chats,
          currentChatId, imageFile, streams, timers, created, linesSent, crashed,
          currentModel, formatted>>

(* Chats created, sends accepted and lines received so far *)
Work == created + Len(streams) + linesSent

----------------------------------------------------------------------------
(* String helpers *)

Min(a, b) == IF a < b THEN a ELSE b

Slice(s, n) == SubSeq(s, 1, Min(n, Len(s)))

RECURSIVE TrimLeft(_)
TrimLeft(s) == IF s # <<>> /\ Head(s) = " " THEN TrimLeft(Tail(s)) ELSE s

RECURSIVE TrimRight(_)
TrimRight(s) ==
    IF s # <<>> /\ s[Len(s)] = " " THEN TrimRight(SubSeq(s, 1, Len(s) - 1)) ELSE s

Trim(s) == TrimRight(TrimLeft(s))

----------------------------------------------------------------------------
(* Records *)

UserMessage(id, text) ==
    [id |-> id, role |-> "user", content |-> text, isStreaming |-> FALSE]

AssistantMessage(id) ==
    [id |-> id, role |-> "assistant", content |-> <<>>, isStreaming |-> TRUE]

(* lastMessage is <<>> while undefined and <<s>> once set to the string s *)
Chat(id, title) ==
    [id |-> id, title |-> title, messages |-> <<>>, lastMessage |-> <<>>]

----------------------------------------------------------------------------
(* Chat management *)

saveCurrentChat(chs, cur, msgs) ==
    IF cur # Null /\ Len(msgs) > 0
    THEN [i \in 1..Len(chs) |->
            IF chs[i].id = cur
            THEN [chs[i] EXCEPT !.messages = msgs,
                                !.lastMessage = <<Slice(msgs[Len(msgs)].content, PreviewLen)>>]
            ELSE chs[i]]
    ELSE chs

RemoveChats(chs, ids) ==
    LET Keep(c) == c.id \notin ids IN SelectSeq(chs, Keep)

ChatIds == { chats[i].id : i \in 1..Len(chats) }

FindChat(chs, id) == CHOOSE i \in 1..Len(chs) : chs[i].id = id

(* Mutant: the init effect runs once, for the render of the mount, and not
   when the chat list becomes empty later *)
InitEffectOnMountOnly(r) ==
    IF r.chats = <<>> /\ r.created = 0
    THEN [chats |-> <<Chat(r.created + 1, NewChatTitle)>>, currentChatId |-> r.created + 1,
          messages |-> <<>>, created |-> r.created + 1]
    ELSE r

(* The init effect: whenever a render ends with no chat, newChat() runs.  The
   render it runs in has an empty chat list, so its saveCurrentChat stores
   nothing. *)
InitEffect(r) ==
    IF r.chats = <<>>
    THEN [chats |-> <<Chat(r.created + 1, NewChatTitle)>>, currentChatId |-> r.created + 1,
          messages |-> <<>>, created |-> r.created + 1]
    ELSE r

(* Every stream still open loses its "no user action since the send" mark,
   and with it the record of what its response has carried so far *)
Disturb(ss) ==
    [i \in 1..Len(ss) |->
        [ss[i] EXCEPT !.quiet = FALSE, !.expected = <<>>, !.split = FALSE, !.bad = "none"]]


Mount ==
    /\ ~mounted
    /\ mounted' = TRUE
    /\ LET r == InitEffect([chats |-> chats, currentChatId |-> currentChatId,
                            messages |-> messages, created |-> created])
       IN /\ chats' = r.chats
          /\ currentChatId' = r.currentChatId
          /\ messages' = r.messages
          /\ created' = r.created
    /\ UNCHANGED <<input, isLoading, toolStatus, imageFile, streams, timers,
                   linesSent, crashed,
                   currentModel, formatted>>

(* newChat as built by the render that is on screen (buttons, goHome) *)
newChat(savedId, savedMessages) ==
    /\ Work < MaxWork
    /\ chats' = <<Chat(created + 1, NewChatTitle)>> \o saveCurrentChat(chats, savedId, savedMessages)
    /\ currentChatId' = created + 1
    /\ messages' = <<>>
    /\ created' = created + 1
    /\ streams' = Disturb(streams)
    /\ UNCHANGED <<mounted, input, isLoading, toolStatus, imageFile, timers,
                   linesSent, crashed,
                   currentModel, formatted>>

NewChat ==
    /\ mounted /\ ~crashed
    /\ newChat(currentChatId, messages)

(* goHome: saveCurrentChat(); newChat().  Both saves queue the same update. *)
GoHome ==
    /\ mounted /\ ~crashed
    /\ newChat(currentChatId, messages)

(* Ctrl/Cmd+K: the listener is registered once (empty dependency list), so it
   keeps the newChat of the first render, whose saveCurrentChat sees
   currentChatId = null and messages = []. *)
NewChatShortcut ==
    /\ mounted /\ ~crashed
    /\ newChat(Null, <<>>)

SwitchChat(chatId) ==
    /\ mounted /\ ~crashed
    /\ chatId \in ChatIds
    /\ chats' = saveCurrentChat(chats, currentChatId, messages)
    /\ currentChatId' = chatId
    /\ messages' = chats[FindChat(chats, chatId)].messages
    /\ streams' = Disturb(streams)
    /\ UNCHANGED <<mounted, input, isLoading, toolStatus, imageFile, timers,
                   created, linesSent, crashed,
                   currentModel, formatted>>

(* deleteChat / deleteSelectedChats, followed by the init effect of the
   render they cause *)
Delete(ids) ==
    LET gone == currentChatId # Null /\ currentChatId \in ids
        r == InitEffect([chats |-> RemoveChats(chats, ids),
                         currentChatId |-> IF gone THEN Null ELSE currentChatId,
                         messages |-> IF gone THEN <<>> ELSE messages,
                         created |-> created])
    IN /\ Work + (r.created - created) <= MaxWork
       /\ chats' = r.chats
       /\ currentChatId' = r.currentChatId
       /\ messages' = r.messages
       /\ created' = r.created
       /\ streams' = Disturb(streams)
       /\ UNCHANGED <<mounted, input, isLoading, toolStatus, imageFile, timers,
                   linesSent, crashed,
                   currentModel, formatted>>

DeleteChat(chatId) ==
    /\ mounted /\ ~crashed
    /\ chatId \in ChatIds
    /\ Delete({chatId})

DeleteSelectedChats(selectedChats) ==
    /\ mounted /\ ~crashed
    /\ selectedChats \subseteq ChatIds
    /\ selectedChats # {}
    /\ Delete(selectedChats)

(* The attach button opens the file dialog unless the current model has no
   vision support; choosing a file there runs handleImageUpload *)
AttachEnabled == MODELS[currentModel].supports_vision

HandleImageUpload ==
    /\ mounted /\ ~crashed
    /\ AttachEnabled
    /\ ~imageFile
    /\ imageFile' = TRUE
    /\ UNCHANGED <<mounted, messages, input, isLoading, toolStatus, chats,
                   currentChatId, streams, timers, created, linesSent, crashed,
                   currentModel, formatted>>

RemoveImage ==
    /\ mounted /\ ~crashed
    /\ imageFile
    /\ imageFile' = FALSE
    /\ UNCHANGED <<mounted, messages, input, isLoading, toolStatus, chats,
                   currentChatId, streams, timers, created, linesSent, crashed,
                   currentModel, formatted>>

(* A model option of the dropdown: setCurrentModel(model) *)
SelectModel(m) ==
    /\ mounted /\ ~crashed
    /\ m \in 1..Len(MODELS) /\ m # currentModel
    /\ currentModel' = m
    /\ UNCHANGED <<mounted, messages, input, isLoading, toolStatus, chats,
                   currentChatId, imageFile, streams, timers, created, linesSent,
                   crashed, formatted>>

----------------------------------------------------------------------------
(* Message handling *)

(* What a sendMessage closure reads from the render that created it *)
Closure ==
    [input |-> input, imageFile |-> imageFile, isLoading |-> isLoading,
     currentChatId |-> currentChatId, messagesLen |-> Len(messages)]

(* One sendMessage invocation past its guards; the i-th one appended the
   messages with ids 2i-1 (user) and 2i (assistant placeholder), generateId
   being modelled by fresh numbers.  pc is where the invocation stands.  The
   other fields record, while the response is open, what the server has sent:
   whether a line is cut by the end of the last read (cut), whether a done
   frame was processed (sawDone), whether no user action happened since the
   send (quiet) and, as long as none did, the chunks of the lines sent
   (expected), whether any line was cut (split) and whether a malformed line
   was processed (bad: "none", then "seen", then "followed" once a frame with
   a chunk was processed after it).  searched records that a frame with
   search_used was processed. *)
NewStream ==
    [pc |-> "fetch", expected |-> <<>>, cut |-> FALSE, split |-> FALSE,
     sawDone |-> FALSE, bad |-> "none", quiet |-> TRUE, searched |-> FALSE]

(* A returned invocation keeps nothing but the fact that it returned and
   whether it had used the search tool *)
Closed(st) == [NewStream EXCEPT !.pc = "closed", !.quiet = FALSE, !.searched = st.searched]

Placeholder(i) == 2 * i

(* Mutant: the input is not trimmed *)
SendTextUntrimmed(overrideInput, cl) ==
    IF overrideInput # <<>> THEN overrideInput ELSE cl.input

(* const text = overrideInput || input.trim() *)
SendText(overrideInput, cl) ==
    IF overrideInput # <<>> THEN overrideInput ELSE Trim(cl.input)

(* The two early returns of sendMessage *)
SendRejected(overrideInput, cl) ==
    \/ SendText(overrideInput, cl) = <<>> /\ ~cl.imageFile
    \/ cl.isLoading

(* sendMessage up to its first await (the fetch), for a call that passed the
   guards.  cl is the closure of the render that built this sendMessage. *)
sendMessage(overrideInput, cl) ==
    LET text == SendText(overrideInput, cl)
        needChat == cl.currentChatId = Null
        title == IF Slice(text, TitleLen) # <<>> THEN Slice(text, TitleLen) ELSE NewChatTitle
        uid == 2 * Len(streams) + 1
        aid == uid + 1
    IN /\ Work + (IF needChat THEN 2 ELSE 1) <= MaxWork
       /\ chats' =
            IF needChat THEN <<Chat(created + 1, title)>> \o chats
            ELSE IF cl.messagesLen = 0
                 THEN [i \in 1..Len(chats) |->
                         IF chats[i].id = cl.currentChatId
                         THEN [chats[i] EXCEPT !.title = Slice(text, TitleLen)]
                         ELSE chats[i]]
                 ELSE chats
       /\ currentChatId' = IF needChat THEN created + 1 ELSE currentChatId
       /\ created' = IF needChat THEN created + 1 ELSE created
       /\ messages' = messages \o <<UserMessage(uid, text), AssistantMessage(aid)>>
       /\ input' = <<>>
       /\ isLoading' = TRUE
       /\ streams' = Append(Disturb(streams), NewStream)
       /\ UNCHANGED <<mounted, toolStatus, imageFile, linesSent, crashed,
                   currentModel, formatted>>

(* onChange of the textarea, which is disabled while isLoading *)
TypeInput(t) ==
    /\ mounted /\ ~crashed
    /\ ~isLoading
    /\ t # input
    /\ input' = t
    /\ UNCHANGED <<mounted, messages, isLoading, toolStatus, chats, currentChatId,
                   imageFile, streams, timers, created, linesSent, crashed,
                   currentModel, formatted>>

(* Enter in the textarea (handleKeyDown) or the send button: sendMessage() of
   the render on screen.  The textarea is disabled while isLoading. *)
Submit ==
    /\ mounted /\ ~crashed
    /\ ~isLoading
    /\ IF SendRejected(<<>>, Closure)
       THEN UNCHANGED vars
       ELSE sendMessage(<<>>, Closure) /\ UNCHANGED timers

(* Mutant: the retry keeps the user message it resends *)
retryMessageKeepsUser(k) ==
    /\ mounted /\ ~crashed
    /\ k \in 1..Len(messages)
    /\ messages[k].role = "assistant" /\ ~messages[k].isStreaming
    /\ Len(timers) < MaxTimers
    /\ IF k >= 2 /\ messages[k - 1].role = "user"
       THEN /\ messages' = SubSeq(messages, 1, k - 1)
            /\ timers' = Append(timers, [text |-> messages[k - 1].content, cl |-> Closure])
            /\ streams' = Disturb(streams)
            /\ UNCHANGED <<mounted, input, isLoading, toolStatus, chats, currentChatId,
                           imageFile, created, linesSent, crashed,
                           currentModel, formatted>>
       ELSE UNCHANGED vars

(* The retry button of message k (1-based), shown on every assistant message
   that is not streaming.  The timer keeps the sendMessage of this render. *)
retryMessage(k) ==
    /\ mounted /\ ~crashed
    /\ k \in 1..Len(messages)
    /\ messages[k].role = "assistant" /\ ~messages[k].isStreaming
    /\ Len(timers) < MaxTimers
    /\ IF k >= 2 /\ messages[k - 1].role = "user"
       THEN /\ messages' = SubSeq(messages, 1, k - 2)
            /\ timers' = Append(timers, [text |-> messages[k - 1].content, cl |-> Closure])
            /\ streams' = Disturb(streams)
            /\ UNCHANGED <<mounted, input, isLoading, toolStatus, chats, currentChatId,
                           imageFile, created, linesSent, crashed,
                   currentModel, formatted>>
       ELSE UNCHANGED vars

(* The 100 ms timer of retryMessage fires; timers of equal delay run in the
   order they were set. *)
RetryTimer ==
    /\ mounted /\ ~crashed
    /\ timers # <<>>
    /\ timers' = Tail(timers)
    /\ IF SendRejected(Head(timers).text, Head(timers).cl)
       THEN UNCHANGED <<mounted, messages, input, isLoading, toolStatus, chats,
                        currentChatId, imageFile, streams, created, linesSent, crashed,
                   currentModel, formatted>>
       ELSE sendMessage(Head(timers).text, Head(timers).cl)

----------------------------------------------------------------------------
(* The stream consumer: the part of sendMessage after the fetch *)

Frame(chunk, search_used, done) ==
    [kind |-> "frame", chunk |-> chunk, search_used |-> search_used, done |-> done]

(* The JSON objects the server sends on a "data: " line *)
Frames ==
    { Frame(c, FALSE, FALSE) : c \in ChunkVals }
        \cup { Frame(NoChunk, TRUE, FALSE), Frame(NoChunk, FALSE, TRUE) }

(* What chunk.split('\n') yields for one read:
     frame  a whole "data: " line holding a JSON object
     bad    a whole "data: " line whose remainder JSON.parse rejects
     blank  a line that does not start with "data: "
     head   the first part of a frame line whose rest comes with the next read
     tail   the rest of that line, first piece of the next read *)
Pieces ==
    Frames \cup { [kind |-> "bad"], [kind |-> "blank"], [kind |-> "tail"] }
           \cup { [kind |-> "head", line |-> f] : f \in Frames }

PieceSeqs == UNION { [1..n -> Pieces] : n \in 1..MaxPieces }

(* The reads a body can produce: a line is cut only at the end of a read and
   its rest opens the next read *)
NewLines(ps) == Cardinality({ j \in 1..Len(ps) : ps[j].kind # "tail" })

ValidRead(st, ps) ==
    /\ \A j \in 1..Len(ps) :
          /\ ps[j].kind = "tail" <=> (j = 1 /\ st.cut)
          /\ ps[j].kind = "head" => j = Len(ps)
    /\ Work + NewLines(ps) <= MaxWork

(* setMessages(prev => ...) of a chunk: on an empty list updated[-1] is
   undefined and reading its content throws while React renders *)
AppendChunk(prev, chunk) ==
    [prev EXCEPT ![Len(prev)].content = @ \o chunk]

(* setMessages(prev => ...) of a done frame: on an empty list the assignment
   to updated[-1] adds no element *)
ClearStreaming(prev) ==
    IF prev = <<>> THEN prev ELSE [prev EXCEPT ![Len(prev)].isStreaming = FALSE]

(* The catch block's update of the last message *)
SetError(prev) ==
    IF prev = <<>> THEN prev
    ELSE [prev EXCEPT ![Len(prev)].content = ErrorText, ![Len(prev)].isStreaming = FALSE]

(* The body of the inner try for a parsed frame: chunk, search_used, done.
   v = [messages, toolStatus, crashed]. *)
ProcessFrame(v, data) ==
    LET v1 == IF data.chunk # NoChunk
              THEN IF v.messages = <<>>
                   THEN [v EXCEPT !.crashed = TRUE]
                   ELSE [v EXCEPT !.messages = AppendChunk(v.messages, data.chunk)]
              ELSE v
        v2 == IF data.search_used THEN [v1 EXCEPT !.toolStatus = Searching] ELSE v1
    IN IF data.done /\ ~v2.crashed
       THEN [v2 EXCEPT !.messages = ClearStreaming(v2.messages)]
       ELSE v2

(* Mutant: a JSON.parse error escapes the inner try and reaches the catch
   block of sendMessage *)
ProcessLineParseErrorEscapes(v, line) ==
    IF v.crashed THEN v
    ELSE IF line.kind = "bad" THEN [v EXCEPT !.messages = SetError(v.messages)]
    ELSE IF line.kind # "frame" THEN v
    ELSE ProcessFrame(v, line)

(* One line of the for loop: only a line that starts with "data: " and
   parses is acted on; a parse error is caught and dropped *)
ProcessLine(v, line) ==
    IF v.crashed \/ line.kind # "frame" THEN v ELSE ProcessFrame(v, line)

RECURSIVE ProcessLines(_, _)
ProcessLines(v, ps) ==
    IF ps = <<>> THEN v ELSE ProcessLines(ProcessLine(v, Head(ps)), Tail(ps))

(* The line a piece belongs to, for the record of what the body contained *)
LineOf(p) == IF p.kind = "head" THEN p.line ELSE p

RECURSIVE BodyChunks(_)
BodyChunks(ps) ==
    IF ps = <<>> THEN <<>>
    ELSE (IF LineOf(Head(ps)).kind = "frame" THEN LineOf(Head(ps)).chunk ELSE <<>>)
            \o BodyChunks(Tail(ps))

RECURSIVE BadAfter(_, _)
BadAfter(b, ps) ==
    IF ps = <<>> THEN b
    ELSE LET p == Head(ps)
             b1 == IF p.kind = "bad" /\ b = "none" THEN "seen"
                   ELSE IF p.kind = "frame" /\ p.chunk # NoChunk /\ b = "seen" THEN "followed"
                   ELSE b
         IN BadAfter(b1, Tail(ps))

HasKind(ps, k) == \E j \in 1..Len(ps) : ps[j].kind = k

HasDone(ps) == \E j \in 1..Len(ps) : ps[j].kind = "frame" /\ ps[j].done

HasSearch(ps) == \E j \in 1..Len(ps) : ps[j].kind = "frame" /\ ps[j].search_used

Open(i) == i \in 1..Len(streams) /\ streams[i].pc \in {"fetch", "reading"}

FetchOk(i) ==
    /\ ~crashed
    /\ Open(i) /\ streams[i].pc = "fetch"
    /\ streams' = [streams EXCEPT ![i].pc = "reading"]
    /\ UNCHANGED <<mounted, messages, input, isLoading, toolStatus, chats,
                   currentChatId, imageFile, timers, created, linesSent, crashed,
                   currentModel, formatted>>

(* Mutant: the catch block without the finally that clears the flags *)
CatchWithoutFinally(i) ==
    /\ messages' = SetError(messages)
    /\ streams' = [streams EXCEPT ![i] = Closed(streams[i])]
    /\ UNCHANGED <<mounted, input, isLoading, toolStatus, chats, currentChatId,
                   imageFile, timers, created, linesSent, crashed,
                   currentModel, formatted>>

(* Mutant: the catch block also clears the attached image *)
CatchClearsImage(i) ==
    /\ messages' = SetError(messages)
    /\ isLoading' = FALSE
    /\ toolStatus' = NoTool
    /\ imageFile' = FALSE
    /\ streams' = [streams EXCEPT ![i] = Closed(streams[i])]
    /\ UNCHANGED <<mounted, input, chats, currentChatId, timers,
                   created, linesSent, crashed,
                   currentModel, formatted>>

(* catch and finally of sendMessage *)
Catch(i) ==
    /\ messages' = SetError(messages)
    /\ isLoading' = FALSE
    /\ toolStatus' = NoTool
    /\ streams' = [streams EXCEPT ![i] = Closed(streams[i])]
    /\ UNCHANGED <<mounted, input, chats, currentChatId, imageFile, timers,
                   created, linesSent, crashed,
                   currentModel, formatted>>

FetchReject(i) ==
    /\ ~crashed
    /\ Open(i) /\ streams[i].pc = "fetch"
    /\ Catch(i)

FetchNotOk(i) ==
    /\ ~crashed
    /\ Open(i) /\ streams[i].pc = "fetch"
    /\ Catch(i)

ReadError(i) ==
    /\ ~crashed
    /\ Open(i) /\ streams[i].pc = "reading"
    /\ Catch(i)

(* reader.read() resolves with data: the for loop over its lines *)
ReadChunk(i, ps) ==
    /\ ~crashed
    /\ Open(i) /\ streams[i].pc = "reading"
    /\ ValidRead(streams[i], ps)
    /\ LET v == ProcessLines([messages |-> messages, toolStatus |-> toolStatus,
                              crashed |-> FALSE], ps)
       IN IF v.crashed
          THEN /\ crashed' = TRUE
               /\ UNCHANGED <<messages, toolStatus, streams, linesSent>>
          ELSE /\ messages' = v.messages
               /\ toolStatus' = v.toolStatus
               /\ crashed' = FALSE
               /\ streams' = [streams EXCEPT
                     ![i].expected = IF streams[i].quiet THEN @ \o BodyChunks(ps) ELSE @,
                     ![i].cut = HasKind(ps, "head"),
                     ![i].split = IF streams[i].quiet THEN @ \/ HasKind(ps, "head") ELSE @,
                     ![i].sawDone = @ \/ HasDone(ps),
                     ![i].searched = @ \/ HasSearch(ps),
                     ![i].bad = IF streams[i].quiet THEN BadAfter(@, ps) ELSE @]
               /\ linesSent' = linesSent + NewLines(ps)
    /\ UNCHANGED <<mounted, input, isLoading, chats, currentChatId, imageFile,
                   timers, created, currentModel, formatted>>

(* Mutant: the end of the stream without the finally block *)
ReadDoneWithoutFinally(i) ==
    /\ ~crashed
    /\ Open(i) /\ streams[i].pc = "reading"
    /\ ~streams[i].cut
    /\ imageFile' = FALSE
    /\ streams' = [streams EXCEPT ![i] = Closed(streams[i])]
    /\ UNCHANGED <<mounted, messages, input, isLoading, toolStatus, chats,
                   currentChatId, timers, created, linesSent, crashed,
                   currentModel, formatted>>

(* reader.read() resolves with done: removeImage(), then finally *)
ReadDone(i) ==
    /\ ~crashed
    /\ Open(i) /\ streams[i].pc = "reading"
    /\ ~streams[i].cut
    /\ imageFile' = FALSE
    /\ isLoading' = FALSE
    /\ toolStatus' = NoTool
    /\ streams' = [streams EXCEPT ![i] = Closed(streams[i])]
    /\ UNCHANGED <<mounted, messages, input, chats, currentChatId, timers,
                   created, linesSent, crashed,
                   currentModel, formatted>>

----------------------------------------------------------------------------

----------------------------------------------------------------------------
(* The markdown formatter: formatMessage *)

(* formatMessage works on characters that carry their origin: raw is TRUE
   for a character of the argument and FALSE for one the formatter wrote.
   Matching reads the character c only. *)
Raw(s) == [i \in 1..Len(s) |-> [c |-> s[i], raw |-> TRUE]]

Lit(s) == [i \in 1..Len(s) |-> [c |-> s[i], raw |-> FALSE]]

Chars(s) == [i \in 1..Len(s) |-> s[i].c]

(* The backquote character, which a string of this module cannot hold *)
Backquote == "bq"

From(s, i) == SubSeq(s, i, Len(s))

Least(S) == CHOOSE j \in S : \A k \in S : j <= k

(* The literal p stands in s at position i *)
At(s, i, p) ==
    /\ i >= 1 /\ i + Len(p) - 1 <= Len(s)
    /\ \A k \in 1..Len(p) : s[i + k - 1].c = p[k]

(* String.indexOf from position i: 0 when p does not occur *)
IndexOf(s, p, i) ==
    LET S == { j \in i..(Len(s) - Len(p) + 1) : At(s, j, p) }
    IN IF S = {} THEN 0 ELSE Least(S)

Contains(s, p) == IndexOf(s, p, 1) # 0

(* replace(/p/g, r) for a literal p *)
RECURSIVE ReplaceAll(_, _, _)
ReplaceAll(s, p, r) ==
    LET j == IndexOf(s, p, 1)
    IN IF j = 0 THEN s
       ELSE SubSeq(s, 1, j - 1) \o r \o ReplaceAll(From(s, j + Len(p)), p, r)

(* Character classes of the regular expressions *)
LineTerminators == { "\n", "\r" }

WhiteSpace == { " ", "\t", "\n", "\r" }

Digits == { "0", "1", "2", "3", "4", "5", "6", "7", "8", "9" }

Letters ==
    { "a", "b", "c", "d", "e", "f", "g", "h", "i", "j", "k", "l", "m", "n", "o",
      "p", "q", "r", "s", "t", "u", "v", "w", "x", "y", "z",
      "A", "B", "C", "D", "E", "F", "G", "H", "I", "J", "K", "L", "M", "N", "O",
      "P", "Q", "R", "S", "T", "U", "V", "W", "X", "Y", "Z" }

WordChars == Letters \cup Digits \cup { "_" }

(* String.trim *)
RECURSIVE TrimStart(_)
TrimStart(s) == IF s # <<>> /\ s[1].c \in WhiteSpace THEN TrimStart(Tail(s)) ELSE s

RECURSIVE TrimEnd(_)
TrimEnd(s) ==
    IF s # <<>> /\ s[Len(s)].c \in WhiteSpace THEN TrimEnd(SubSeq(s, 1, Len(s) - 1)) ELSE s

TrimWs(s) == TrimEnd(TrimStart(s))

(* String.split for a one-character separator *)
RECURSIVE Split(_, _)
Split(s, sep) ==
    LET j == IndexOf(s, <<sep>>, 1)
    IN IF j = 0 THEN <<s>> ELSE <<SubSeq(s, 1, j - 1)>> \o Split(From(s, j + 1), sep)

RECURSIVE Join(_)
Join(ss) == IF ss = <<>> THEN <<>> ELSE Head(ss) \o Join(Tail(ss))

(* The end of the line that position i is in: the first line terminator at
   or after i, Len(s) + 1 when there is none *)
LineEnd(s, i) ==
    LET S == { j \in i..Len(s) : s[j].c \in LineTerminators }
    IN IF S = {} THEN Len(s) + 1 ELSE Least(S)

(* encodeURIComponent: the unreserved characters stay, every other character
   of the ASCII range used here becomes its percent code *)
Unreserved == Letters \cup Digits \cup { "-", "_", ".", "!", "~", "*", "'", "(", ")" }

PercentCode(c) ==
    CASE c = " " -> <<"%", "2", "0">> [] c = "\n" -> <<"%", "0", "A">> [] c = "\r" -> <<"%", "0", "D">>
      [] c = "\t" -> <<"%", "0", "9">> [] c = "\"" -> <<"%", "2", "2">> [] c = "#" -> <<"%", "2", "3">>
      [] c = "$" -> <<"%", "2", "4">> [] c = "%" -> <<"%", "2", "5">> [] c = "&" -> <<"%", "2", "6">>
      [] c = "+" -> <<"%", "2", "B">> [] c = "," -> <<"%", "2", "C">> [] c = "/" -> <<"%", "2", "F">>
      [] c = ":" -> <<"%", "3", "A">> [] c = ";" -> <<"%", "3", "B">> [] c = "<" -> <<"%", "3", "C">>
      [] c = "=" -> <<"%", "3", "D">> [] c = ">" -> <<"%", "3", "E">> [] c = "?" -> <<"%", "3", "F">>
      [] c = "@" -> <<"%", "4", "0">> [] c = "[" -> <<"%", "5", "B">> [] c = "\\" -> <<"%", "5", "C">>
      [] c = "]" -> <<"%", "5", "D">> [] c = "^" -> <<"%", "5", "E">> [] c = Backquote -> <<"%", "6", "0">>
      [] c = "{" -> <<"%", "7", "B">> [] c = "|" -> <<"%", "7", "C">> [] c = "}" -> <<"%", "7", "D">>

encodeURIComponent(s) ==
    Join([i \in 1..Len(s) |->
            IF s[i].c \in Unreserved THEN <<s[i]>> ELSE Lit(PercentCode(s[i].c))])

(* code.replace(/</g, '&lt;').replace(/>/g, '&gt;') *)
EscapeAngles(s) == ReplaceAll(ReplaceAll(s, <<"<">>, Lit(<<"&", "l", "t", ";">>)), <<">">>, Lit(<<"&", "g", "t", ";">>))

DigitChars == <<"0", "1", "2", "3", "4", "5", "6", "7", "8", "9">>

RECURSIVE Decimal(_)
Decimal(n) ==
    IF n < 10 THEN <<DigitChars[n + 1]>>
    ELSE Decimal(n \div 10) \o <<DigitChars[(n % 10) + 1]>>

(* `__CODE_BLOCK_${index}__` *)
CodeBlockMark(index) == Lit(<<"_", "_", "C", "O", "D", "E", "_", "B", "L", "O", "C", "K", "_">>) \o Lit(Decimal(index)) \o Lit(<<"_", "_">>)

(* The template literal pushed to codeBlocks *)
CodeBlockHtml(lang, code) ==
    Lit(<<"<", "d", "i", "v", " ", "c", "l", "a", "s", "s", "=", "\"", "c", "o", "d", "e", "-", "b", "l", "o", "c", "k", "-", "w", "r", "a", "p", "p", "e", "r", "\"", ">", "\n", " ", " ", " ", " ", " ", " ", " ", " ", " ", " ", " ", " ", " ", " ", " ", " ", "<", "d", "i", "v", " ", "c", "l", "a", "s", "s", "=", "\"", "c", "o", "d", "e", "-", "h", "e", "a", "d", "e", "r", "\"", ">", "\n", " ", " ", " ", " ", " ", " ", " ", " ", " ", " ", " ", " ", " ", " ", " ", " ", " ", " ", " ", " ", "<", "s", "p", "a", "n", " ", "c", "l", "a", "s", "s", "=", "\"", "c", "o", "d", "e", "-", "l", "a", "n", "g", "\"", ">">>)
    \o (IF lang # <<>> THEN lang ELSE Lit(<<"c", "o", "d", "e">>))
    \o Lit(<<"<", "/", "s", "p", "a", "n", ">", "\n", " ", " ", " ", " ", " ", " ", " ", " ", " ", " ", " ", " ", " ", " ", " ", " ", " ", " ", " ", " ", "<", "b", "u", "t", "t", "o", "n", " ", "c", "l", "a", "s", "s", "=", "\"", "c", "o", "d", "e", "-", "c", "o", "p", "y", "-", "b", "t", "n", "\"", " ", "o", "n", "c", "l", "i", "c", "k", "=", "\"", "n", "a", "v", "i", "g", "a", "t", "o", "r", ".", "c", "l", "i", "p", "b", "o", "a", "r", "d", ".", "w", "r", "i", "t", "e", "T", "e", "x", "t", "(", "d", "e", "c", "o", "d", "e", "U", "R", "I", "C", "o", "m", "p", "o", "n", "e", "n", "t", "(", "'">>)
    \o encodeURIComponent(TrimWs(code))
    \o Lit(<<"'", ")", ")", ";", "t", "h", "i", "s", ".", "t", "e", "x", "t", "C", "o", "n", "t", "e", "n", "t", "=", "'", "C", "o", "p", "i", "e", "d", "!", "'", "\"", ">", "C", "o", "p", "y", "<", "/", "b", "u", "t", "t", "o", "n", ">", "\n", " ", " ", " ", " ", " ", " ", " ", " ", " ", " ", " ", " ", " ", " ", " ", " ", "<", "/", "d", "i", "v", ">", "\n", " ", " ", " ", " ", " ", " ", " ", " ", " ", " ", " ", " ", " ", " ", " ", " ", "<", "p", "r", "e", " ", "c", "l", "a", "s", "s", "=", "\"", "c", "o", "d", "e", "-", "b", "l", "o", "c", "k", "\"", ">", "<", "c", "o", "d", "e", ">">>)
    \o EscapeAngles(code)
    \o Lit(<<"<", "/", "c", "o", "d", "e", ">", "<", "/", "p", "r", "e", ">", "\n", " ", " ", " ", " ", " ", " ", " ", " ", " ", " ", " ", " ", "<", "/", "d", "i", "v", ">">>)

(* The end of the run of \w characters that starts at position i *)
WordRunEnd(s, i) ==
    LET S == { j \in i..Len(s) : s[j].c \notin WordChars }
    IN IF S = {} THEN Len(s) + 1 ELSE Least(S)

(* content.replace of the fence pattern (three backquotes, a run of \w, an
   optional "\n", the shortest body, three backquotes): the text with every
   fenced block replaced by its mark, and the blocks in order.  index is the
   number of blocks stored before s. *)
RECURSIVE ExtractCodeBlocks(_, _)
ExtractCodeBlocks(s, index) ==
    LET i == IndexOf(s, <<Backquote, Backquote, Backquote>>, 1)
        l == WordRunEnd(s, i + 3)
        p == IF l <= Len(s) /\ s[l].c = "\n" THEN l + 1 ELSE l
        k == IndexOf(s, <<Backquote, Backquote, Backquote>>, p)
        rest == ExtractCodeBlocks(From(s, k + 3), index + 1)
    IN IF i = 0 \/ k = 0 THEN [processed |-> s, codeBlocks |-> <<>>]
       ELSE [processed |-> SubSeq(s, 1, i - 1) \o CodeBlockMark(index) \o rest.processed,
             codeBlocks |-> <<CodeBlockHtml(SubSeq(s, i + 3, l - 1), SubSeq(s, p, k - 1))>>
                               \o rest.codeBlocks]

(* The replacement patterns String.replace expands in a replacement string
   when the pattern is a string: $$, $&, $` and $' *)
IsReplacementPattern(r, i) ==
    At(r, i, <<"$", "$">>) \/ At(r, i, <<"$", "&">>) \/ At(r, i, <<"$", Backquote>>) \/ At(r, i, <<"$", "'">>)

RECURSIVE ExpandReplacement(_, _, _, _)
ExpandReplacement(r, matched, before, after) ==
    LET S == { i \in 1..Len(r) : IsReplacementPattern(r, i) }
        i == Least(S)
        x == IF At(r, i, <<"$", "$">>) THEN <<r[i]>>
             ELSE IF At(r, i, <<"$", "&">>) THEN matched
             ELSE IF At(r, i, <<"$", Backquote>>) THEN before
             ELSE after
    IN IF S = {} THEN r
       ELSE SubSeq(r, 1, i - 1) \o x \o ExpandReplacement(From(r, i + 2), matched, before, after)

(* processed.replace(`__CODE_BLOCK_${index}__`, block): the first occurrence *)
RestoreCodeBlock(processed, index, block) ==
    LET mark == Chars(CodeBlockMark(index))
        j == IndexOf(processed, mark, 1)
        before == SubSeq(processed, 1, j - 1)
        after == From(processed, j + Len(mark))
    IN IF j = 0 THEN processed
       ELSE before \o ExpandReplacement(block, SubSeq(processed, j, j + Len(mark) - 1),
                                        before, after) \o after

(* codeBlocks.forEach(...), from block number index on *)
RECURSIVE RestoreCodeBlocks(_, _, _)
RestoreCodeBlocks(processed, codeBlocks, index) ==
    IF codeBlocks = <<>> THEN processed
    ELSE RestoreCodeBlocks(RestoreCodeBlock(processed, index, Head(codeBlocks)),
                           Tail(codeBlocks), index + 1)

(* The end of the run of "\n" that starts at position i *)
NewlineRunEnd(s, i) ==
    LET S == { j \in i..Len(s) : s[j].c # "\n" }
    IN IF S = {} THEN Len(s) + 1 ELSE Least(S)

(* replace(/\n{3,}/g, '\n\n') *)
RECURSIVE CollapseNewlines(_)
CollapseNewlines(s) ==
    LET S == { i \in 1..Len(s) : At(s, i, <<"\n", "\n", "\n">>) }
        i == Least(S)
    IN IF S = {} THEN s
       ELSE SubSeq(s, 1, i - 1) \o Lit(<<"\n", "\n">>) \o CollapseNewlines(From(s, NewlineRunEnd(s, i)))

(* The end of the run of line terminators that starts at position i *)
TerminatorRunEnd(s, i) ==
    LET S == { j \in i..Len(s) : s[j].c \notin LineTerminators }
    IN IF S = {} THEN Len(s) + 1 ELSE Least(S)

(* \|.+\|[\r\n]+ at position i: the position after the match, 0 when there
   is none.  The row must end with "|" right before its line terminator. *)
RowEnd(s, i) ==
    LET e == LineEnd(s, i)
    IN IF i <= Len(s) /\ s[i].c = "|" /\ e <= Len(s) /\ e - 1 >= i + 2 /\ s[e - 1].c = "|"
       THEN TerminatorRunEnd(s, e)
       ELSE 0

(* (\|.+\|[\r\n]+)+ from position i, where one row matches *)
RECURSIVE TableEnd(_, _)
TableEnd(s, i) ==
    LET e == RowEnd(s, i) IN IF e = 0 THEN i ELSE TableEnd(s, e)

(* line.trim().match(/^\|[-:\s|]+\|$/) *)
IsSeparatorRow(t) ==
    /\ Len(t) >= 3 /\ t[1].c = "|" /\ t[Len(t)].c = "|"
    /\ \A k \in 2..(Len(t) - 1) : t[k].c \in ({ "-", ":", "|" } \cup WhiteSpace)

(* line.split('|').filter(c => c.trim() !== '') *)
Cells(line) ==
    LET NotBlank(c) == TrimWs(c) # <<>> IN SelectSeq(Split(line, "|"), NotBlank)

RowHtml(cells, tag) ==
    Join([k \in 1..Len(cells) |->
            Lit(<<"<">>) \o tag \o Lit(<<">">>) \o TrimWs(cells[k]) \o Lit(<<"<", "/">>) \o tag \o Lit(<<">">>)])

(* The for loop over the lines of a table *)
RECURSIVE TableRows(_, _)
TableRows(lines, isHeader) ==
    IF lines = <<>> THEN <<>>
    ELSE LET line == Head(lines)
             cells == Cells(line)
         IN IF IsSeparatorRow(TrimWs(line)) \/ cells = <<>>
            THEN TableRows(Tail(lines), isHeader)
            ELSE Lit(<<"<", "t", "r", ">">>) \o RowHtml(cells, IF isHeader THEN Lit(<<"t", "h">>) ELSE Lit(<<"t", "d">>)) \o Lit(<<"<", "/", "t", "r", ">">>)
                    \o TableRows(Tail(lines), FALSE)

(* The callback of the table replacement *)
TableHtml(match) ==
    LET lines == Split(TrimWs(match), "\n")
    IN IF Len(lines) < 2 THEN match
       ELSE Lit(<<"<", "t", "a", "b", "l", "e", " ", "c", "l", "a", "s", "s", "=", "\"", "m", "s", "g", "-", "t", "a", "b", "l", "e", "\"", ">">>) \o TableRows(lines, TRUE) \o Lit(<<"<", "/", "t", "a", "b", "l", "e", ">">>)

(* processed.replace(tableRegex, ...) *)
RECURSIVE ReplaceTables(_)
ReplaceTables(s) ==
    LET S == { i \in 1..Len(s) : RowEnd(s, i) # 0 }
        i == Least(S)
        e == TableEnd(s, i)
    IN IF S = {} THEN s
       ELSE SubSeq(s, 1, i - 1) \o TableHtml(SubSeq(s, i, e - 1)) \o ReplaceTables(From(s, e))

(* `([^`]+)` at position i: the position of the closing backquote, 0 when
   there is no match *)
InlineCodeEnd(s, i) ==
    LET k == IndexOf(s, <<Backquote>>, i + 1)
    IN IF s[i].c = Backquote /\ k >= i + 2 THEN k ELSE 0

(* replace(/`([^`]+)`/g, '<code class="inline-code">$1</code>') *)
RECURSIVE InlineCode(_)
InlineCode(s) ==
    LET S == { i \in 1..Len(s) : InlineCodeEnd(s, i) # 0 }
        i == Least(S)
        k == InlineCodeEnd(s, i)
    IN IF S = {} THEN s
       ELSE SubSeq(s, 1, i - 1)
               \o Lit(<<"<", "c", "o", "d", "e", " ", "c", "l", "a", "s", "s", "=", "\"", "i", "n", "l", "i", "n", "e", "-", "c", "o", "d", "e", "\"", ">">>) \o SubSeq(s, i + 1, k - 1) \o Lit(<<"<", "/", "c", "o", "d", "e", ">">>)
               \o InlineCode(From(s, k + 1))

(* A replacement with the flags gm whose pattern is anchored by ^ and $ acts
   on each line by itself: s with every line replaced by its image.  The
   stages below give the image of one line. *)
Blockquote(line) ==
    IF At(line, 1, <<">", " ">>) THEN Lit(<<"<", "b", "l", "o", "c", "k", "q", "u", "o", "t", "e", ">">>) \o From(line, 3) \o Lit(<<"<", "/", "b", "l", "o", "c", "k", "q", "u", "o", "t", "e", ">">>) ELSE line

Heading3(line) ==
    IF At(line, 1, <<"#", "#", "#", " ">>) THEN Lit(<<"<", "h", "3", ">">>) \o From(line, 5) \o Lit(<<"<", "/", "h", "3", ">">>) ELSE line

Heading2(line) ==
    IF At(line, 1, <<"#", "#", " ">>) THEN Lit(<<"<", "h", "2", ">">>) \o From(line, 4) \o Lit(<<"<", "/", "h", "2", ">">>) ELSE line

Heading1(line) ==
    IF At(line, 1, <<"#", " ">>) THEN Lit(<<"<", "h", "1", ">">>) \o From(line, 3) \o Lit(<<"<", "/", "h", "1", ">">>) ELSE line

HorizontalRule(line) == IF Chars(line) = <<"-", "-", "-">> THEN Lit(<<"<", "h", "r", " ", "/", ">">>) ELSE line

ListItem(line) ==
    IF At(line, 1, <<"-", " ">>) THEN Lit(<<"<", "l", "i", ">">>) \o From(line, 3) \o Lit(<<"<", "/", "l", "i", ">">>) ELSE line

(* One or more digits, a dot, a space, and the rest of the line *)
NumberedItem(line) ==
    LET S == { j \in 1..Len(line) : line[j].c \notin Digits }
        d == IF S = {} THEN Len(line) + 1 ELSE Least(S)
    IN IF d >= 2 /\ At(line, d, <<".", " ">>)
       THEN Lit(<<"<", "l", "i", " ", "c", "l", "a", "s", "s", "=", "\"", "n", "u", "m", "b", "e", "r", "e", "d", "\"", ">">>) \o From(line, d + 2) \o Lit(<<"<", "/", "l", "i", ">">>)
       ELSE line

LineStages ==
    { "blockquote", "h3", "h2", "h1", "hr", "li", "numbered" }

LineImage(stage, line) ==
    CASE stage = "blockquote" -> Blockquote(line)
      [] stage = "h3" -> Heading3(line)
      [] stage = "h2" -> Heading2(line)
      [] stage = "h1" -> Heading1(line)
      [] stage = "hr" -> HorizontalRule(line)
      [] stage = "li" -> ListItem(line)
      [] stage = "numbered" -> NumberedItem(line)

RECURSIVE PerLine(_, _)
PerLine(stage, s) ==
    LET e == LineEnd(s, 1)
    IN IF e > Len(s) THEN LineImage(stage, s)
       ELSE LineImage(stage, SubSeq(s, 1, e - 1)) \o <<s[e]>> \o PerLine(stage, From(s, e + 1))

(* No line terminator in s from position a to position b *)
OneLine(s, a, b) == \A m \in a..b : s[m].c \notin LineTerminators

(* \*\*(.+?)\*\* at position i: the position of the closing "**", 0 when
   there is no match *)
BoldEnd(s, i) ==
    LET K == { k \in (i + 3)..(Len(s) - 1) : At(s, k, <<"*", "*">>) /\ OneLine(s, i + 2, k - 1) }
    IN IF At(s, i, <<"*", "*">>) /\ K # {} THEN Least(K) ELSE 0

(* replace(/\*\*(.+?)\*\*/g, '<strong>$1</strong>') *)
RECURSIVE Bold(_)
Bold(s) ==
    LET S == { i \in 1..Len(s) : BoldEnd(s, i) # 0 }
        i == Least(S)
        k == BoldEnd(s, i)
    IN IF S = {} THEN s
       ELSE SubSeq(s, 1, i - 1) \o Lit(<<"<", "s", "t", "r", "o", "n", "g", ">">>) \o SubSeq(s, i + 2, k - 1) \o Lit(<<"<", "/", "s", "t", "r", "o", "n", "g", ">">>)
               \o Bold(From(s, k + 2))

(* \*(.+?)\* at position i: the position of the closing "*", 0 when there is
   no match *)
ItalicEnd(s, i) ==
    LET K == { k \in (i + 2)..Len(s) : s[k].c = "*" /\ OneLine(s, i + 1, k - 1) }
    IN IF s[i].c = "*" /\ K # {} THEN Least(K) ELSE 0

(* replace(/\*(.+?)\*/g, '<em>$1</em>') *)
RECURSIVE Italic(_)
Italic(s) ==
    LET S == { i \in 1..Len(s) : ItalicEnd(s, i) # 0 }
        i == Least(S)
        k == ItalicEnd(s, i)
    IN IF S = {} THEN s
       ELSE SubSeq(s, 1, i - 1) \o Lit(<<"<", "e", "m", ">">>) \o SubSeq(s, i + 1, k - 1) \o Lit(<<"<", "/", "e", "m", ">">>)
               \o Italic(From(s, k + 1))

(* \[([^\]]+)\]\(([^)]+)\) at position i: the position of the closing ")",
   0 when there is no match *)
LinkEnd(s, i) ==
    LET k == IndexOf(s, <<"]">>, i + 1)
        m == IndexOf(s, <<")">>, k + 2)
    IN IF s[i].c = "[" /\ k >= i + 2 /\ At(s, k + 1, <<"(">>) /\ m >= k + 3 THEN m ELSE 0

(* replace(/\[([^\]]+)\]\(([^)]+)\)/g, '<a href="$2" target="_blank" rel="noopener">$1</a>') *)
RECURSIVE Links(_)
Links(s) ==
    LET S == { i \in 1..Len(s) : LinkEnd(s, i) # 0 }
        i == Least(S)
        m == LinkEnd(s, i)
        k == IndexOf(s, <<"]">>, i + 1)
    IN IF S = {} THEN s
       ELSE SubSeq(s, 1, i - 1)
               \o Lit(<<"<", "a", " ", "h", "r", "e", "f", "=", "\"">>) \o SubSeq(s, k + 2, m - 1)
               \o Lit(<<"\"", " ", "t", "a", "r", "g", "e", "t", "=", "\"", "_", "b", "l", "a", "n", "k", "\"", " ", "r", "e", "l", "=", "\"", "n", "o", "o", "p", "e", "n", "e", "r", "\"", ">">>) \o SubSeq(s, i + 1, k - 1) \o Lit(<<"<", "/", "a", ">">>)
               \o Links(From(s, m + 1))

(* replace(/\n\n+/g, '</p><p>') *)
RECURSIVE Paragraphs(_)
Paragraphs(s) ==
    LET S == { i \in 1..Len(s) : At(s, i, <<"\n", "\n">>) }
        i == Least(S)
    IN IF S = {} THEN s
       ELSE SubSeq(s, 1, i - 1) \o Lit(<<"<", "/", "p", ">", "<", "p", ">">>) \o Paragraphs(From(s, NewlineRunEnd(s, i)))

(* replace(/(tag)<br>/g, '$1') for the closing tags in tags *)
RECURSIVE DropBrAfter(_, _)
DropBrAfter(s, tags) ==
    LET S == { i \in 1..Len(s) : \E t \in tags : At(s, i, t \o <<"<", "b", "r", ">">>) }
        i == Least(S)
        t == CHOOSE x \in tags : At(s, i, x \o <<"<", "b", "r", ">">>)
    IN IF S = {} THEN s
       ELSE SubSeq(s, 1, i + Len(t) - 1) \o DropBrAfter(From(s, i + Len(t) + 4), tags)

(* The second chain of replacements: paragraph breaks and line breaks *)
LineBreaks(s) ==
    LET a == Paragraphs(s)
        b == DropBrAfter(a, { <<"<", "/", "h", "1", ">">>, <<"<", "/", "h", "2", ">">>, <<"<", "/", "h", "3", ">">> })
        c == DropBrAfter(b, { <<"<", "h", "r", " ", "/", ">">> })
        d == DropBrAfter(c, { <<"<", "/", "t", "a", "b", "l", "e", ">">> })
        e == DropBrAfter(d, { <<"<", "/", "u", "l", ">">> })
        f == DropBrAfter(e, { <<"<", "/", "b", "l", "o", "c", "k", "q", "u", "o", "t", "e", ">">> })
    IN ReplaceAll(f, <<"\n">>, Lit(<<"<", "b", "r", ">">>))

(* Wrap in a paragraph unless the text starts with a block element *)
WrapParagraph(s) ==
    IF ~At(s, 1, <<"<", "h">>) /\ ~At(s, 1, <<"<", "t", "a", "b", "l", "e">>) /\ ~At(s, 1, <<"<", "u", "l">>) /\ ~At(s, 1, <<"<", "d", "i", "v">>)
    THEN Lit(<<"<", "p", ">">>) \o s \o Lit(<<"<", "/", "p", ">">>)
    ELSE s

(* Clean up empty paragraphs and excessive breaks *)
CleanUp(s) ==
    LET a == ReplaceAll(s, <<"<", "p", ">", "<", "/", "p", ">">>, <<>>)
        b == ReplaceAll(a, <<"<", "p", ">", "<", "b", "r", ">", "<", "/", "p", ">">>, <<>>)
        c == ReplaceAll(b, <<"<", "b", "r", ">", "<", "b", "r", ">">>, Lit(<<"<", "b", "r", ">">>))
        d == ReplaceAll(c, <<"<", "p", ">", "<", "b", "r", ">">>, Lit(<<"<", "p", ">">>))
    IN ReplaceAll(d, <<"<", "b", "r", ">", "<", "/", "p", ">">>, Lit(<<"<", "/", "p", ">">>))

(* <li>.*?<\/li>(<br>)? at position i: the position after the match, 0 when
   there is none *)
ItemEnd(s, i) ==
    LET k == IndexOf(s, <<"<", "/", "l", "i", ">">>, i + 4)
    IN IF At(s, i, <<"<", "l", "i", ">">>) /\ k # 0 /\ OneLine(s, i + 4, k - 1)
       THEN IF At(s, k + 5, <<"<", "b", "r", ">">>) THEN k + 9 ELSE k + 5
       ELSE 0

RECURSIVE ListEnd(_, _)
ListEnd(s, i) ==
    LET e == ItemEnd(s, i) IN IF e = 0 THEN i ELSE ListEnd(s, e)

(* replace(/(<li>.*?<\/li>(<br>)?)+/g, ...): wrap lists *)
RECURSIVE WrapLists(_)
WrapLists(s) ==
    LET S == { i \in 1..Len(s) : ItemEnd(s, i) # 0 }
        i == Least(S)
        e == ListEnd(s, i)
    IN IF S = {} THEN s
       ELSE SubSeq(s, 1, i - 1)
               \o Lit(<<"<", "u", "l", ">">>) \o ReplaceAll(SubSeq(s, i, e - 1), <<"<", "b", "r", ">">>, <<>>) \o Lit(<<"<", "/", "u", "l", ">">>)
               \o WrapLists(From(s, e))

(* The first chain of replacements: headers, emphasis, lists, links *)
InlineMarkdown(s) ==
    LET a == InlineCode(s)
        b == PerLine("blockquote", a)
        c == PerLine("h3", b)
        d == PerLine("h2", c)
        e == PerLine("h1", d)
        f == Bold(e)
        g == Italic(f)
        h == PerLine("hr", g)
        i == PerLine("li", h)
        j == PerLine("numbered", i)
    IN Links(j)

(* The one element of a singleton; a value bound in { e : x \in S } is
   computed once *)
Only(S) == CHOOSE x \in S : TRUE

formatMessage(content) ==
    Only({ RestoreCodeBlocks(listed, fenced.codeBlocks, 0) :
             fenced \in { ExtractCodeBlocks(content, 0) },
             listed \in
               { WrapLists(cleaned) : cleaned \in
               { CleanUp(wrapped) : wrapped \in
               { WrapParagraph(broken) : broken \in
               { LineBreaks(inlined) : inlined \in
               { InlineMarkdown(tabled) : tabled \in
               { ReplaceTables(collapsed) : collapsed \in
               { CollapseNewlines(f.processed) : f \in { ExtractCodeBlocks(content, 0) } } } } } } } } })

----------------------------------------------------------------------------
(* The arguments formatMessage is applied to *)

MarkdownChars == { "a", "<", ">", "\n", " ", "*", "#", "-" }

(* Every text of at most MaxFormatLen characters over MarkdownChars *)
ShortTexts == UNION { [1..n -> MarkdownChars] : n \in 0..MaxFormatLen }

(* Fenced blocks: the text before the fence, the language tag and the body *)
FenceCases ==
    [pre : { <<>>, <<"a">>, <<"_", "_", "C", "O", "D", "E", "_", "B", "L", "O", "C", "K", "_", "0", "_", "_">> },
     lang : { <<>>, <<"p", "y", "t", "h", "o", "n">> },
     body : { <<"p", "r", "i", "n", "t", "(", "1", ")">>, <<"*", "*", "b", "o", "l", "d", "*", "*">>, <<"a", "<", "b", ">">>, <<"x", Backquote, "|", "y">>, <<"$", "$">>, <<"$", "&">> }]

FenceText(f) == f.pre \o <<Backquote, Backquote, Backquote>> \o f.lang \o <<"\n">> \o f.body \o <<Backquote, Backquote, Backquote>>

TableWithNewline == <<"|", "a", "|", "b", "|", "\n", "|", "-", "-", "-", "|", "-", "-", "-", "|", "\n", "|", "1", "|", "2", "|", "\n">>

TableWithoutNewline == <<"|", "a", "|", "b", "|", "\n", "|", "-", "-", "-", "|", "-", "-", "-", "|", "\n", "|", "1", "|", "2", "|">>

LonePipeLine == <<"|", "a", "|", "b", "|">>

TableTexts == { TableWithNewline, TableWithoutNewline, LonePipeLine, LonePipeLine \o <<"\n">> }

(* Texts in which a newline follows a block: heading, rule, quote, list
   item, table *)
BreakTexts == { <<"#", " ", "a", "\n", "b">>, <<"-", "-", "-", "\n", "b">>, <<">", " ", "a", "\n", "b">>, <<"-", " ", "a", "\n", "b">>, <<"|", "a", "|", "\n", "|", "b", "|", "\n", "c">> }

(* Lists: unordered items, ordered items, and both *)
ListTexts == { <<"-", " ", "a">>, <<"-", " ", "a", "\n", "-", " ", "b">>, <<"1", ".", " ", "a">>, <<"1", ".", " ", "a", "\n", "2", ".", " ", "b">>, <<"-", " ", "a", "\n", "1", ".", " ", "b">> }

(* Texts that grow after a blank line: a prefix that ends with a blank line,
   and what is appended to it *)
GrowthPrefixes == { <<"a", "\n", "\n">>, <<"#", " ", "a", "\n", "\n">>, <<"-", " ", "a", "\n", "\n">>, <<"|", "a", "|", "\n", "|", "b", "|", "\n", "\n">>, <<Backquote, "a", "\n", "\n">> }

GrowthSuffixes == { <<"b">>, <<"-", " ", "b">>, <<"|", "c", "|", "\n">>, <<Backquote>> }

GrowthTexts == { p \o s : p \in GrowthPrefixes, s \in GrowthSuffixes }

FormatInputs ==
    ShortTexts \cup { FenceText(f) : f \in FenceCases } \cup TableTexts
        \cup BreakTexts \cup ListTexts \cup GrowthTexts

----------------------------------------------------------------------------

(* formatMessage is not applied in the behaviours of the chat client *)
NotFormatted == [content |-> <<>>, html |-> <<>>, done |-> FALSE]

InitHome ==
    /\ mounted = FALSE
    /\ messages = <<>>
    /\ input = <<>>
    /\ isLoading = FALSE
    /\ toolStatus = NoTool
    /\ chats = <<>>
    /\ currentChatId = Null
    /\ imageFile = FALSE
    /\ streams = <<>>
    /\ timers = <<>>
    /\ created = 0
    /\ linesSent = 0
    /\ crashed = FALSE
    /\ currentModel = 1

Init ==
    /\ InitHome
    /\ formatted = NotFormatted

Next ==
    \/ Mount
    \/ NewChat
    \/ GoHome
    \/ NewChatShortcut
    \/ \E c \in ChatIds : SwitchChat(c)
    \/ \E c \in ChatIds : DeleteChat(c)
    \/ \E sel \in SUBSET ChatIds : DeleteSelectedChats(sel)
    \/ \E t \in Inputs : TypeInput(t)
    \/ Submit
    \/ \E k \in 1..Len(messages) : retryMessage(k)
    \/ RetryTimer
    \/ \E i \in 1..Len(streams) : FetchOk(i)
    \/ \E i \in 1..Len(streams) : FetchReject(i)
    \/ \E i \in 1..Len(streams) : FetchNotOk(i)
    \/ \E i \in 1..Len(streams) : ReadError(i)
    \/ \E i \in 1..Len(streams) : \E ps \in PieceSeqs : ReadChunk(i, ps)
    \/ \E i \in 1..Len(streams) : ReadDone(i)

Spec == Init /\ [][Next]_vars

(* The input surface alone: one chat, the textarea, the attach button, the
   model dropdown, the send button, and the requests they start *)
NextInput ==
    \/ Mount
    \/ HandleImageUpload
    \/ RemoveImage
    \/ \E m \in 1..Len(MODELS) : SelectModel(m)
    \/ \E t \in Inputs : TypeInput(t)
    \/ Submit
    \/ \E k \in 1..Len(messages) : retryMessage(k)
    \/ RetryTimer
    \/ \E i \in 1..Len(streams) : FetchOk(i)
    \/ \E i \in 1..Len(streams) : FetchReject(i)
    \/ \E i \in 1..Len(streams) : FetchNotOk(i)
    \/ \E i \in 1..Len(streams) : ReadError(i)
    \/ \E i \in 1..Len(streams) : \E ps \in PieceSeqs : ReadChunk(i, ps)
    \/ \E i \in 1..Len(streams) : ReadDone(i)

SpecInput == Init /\ [][NextInput]_vars

(* The renderer alone: formatMessage applied to one message content, as
   renderChatPage does for every displayed message *)
InitFormat ==
    /\ InitHome
    /\ formatted \in { [content |-> c, html |-> <<>>, done |-> FALSE] : c \in FormatInputs }

Format ==
    /\ ~formatted.done
    /\ formatted' = [formatted EXCEPT !.html = formatMessage(Raw(formatted.content)),
                                      !.done = TRUE]
    /\ UNCHANGED <<mounted, messages, input, isLoading, toolStatus, chats,
                   currentChatId, imageFile, streams, timers, created, linesSent,
                   crashed, currentModel>>

NextFormat == Format

SpecFormat == InitFormat /\ [][NextFormat]_vars

----------------------------------------------------------------------------
(* Helpers of the properties *)

Streams == 1..Len(streams)

(* The step closes invocation i: sendMessage returns *)
Settles(i) == Open(i) /\ streams'[i].pc = "closed"

(* The step is the catch path of invocation i *)
Fails(i) == FetchReject(i) \/ FetchNotOk(i) \/ ReadError(i)

(* msgs shows the message id with content c *)
Shows(msgs, id, c) == \E k \in 1..Len(msgs) : msgs[k].id = id /\ msgs[k].content = c

StreamingIn(msgs, id) == \E k \in 1..Len(msgs) : msgs[k].id = id /\ msgs[k].isStreaming

(* Every message of the displayed list other than id is left as it was *)
OthersUntouched(id) ==
    /\ Len(messages') = Len(messages)
    /\ \A k \in 1..Len(messages) : messages[k].id # id => messages'[k] = messages[k]

RECURSIVE StripBad(_)
StripBad(ps) ==
    IF ps = <<>> THEN <<>>
    ELSE IF Head(ps).kind = "bad" THEN StripBad(Tail(ps))
         ELSE <<Head(ps)>> \o StripBad(Tail(ps))

----------------------------------------------------------------------------
(* C1: in every reachable state at most one displayed message has
   isStreaming = true, and it is the last message of the list. *)
C1_OneStreamingAndLast ==
    \A k \in 1..Len(messages) : messages[k].isStreaming => k = Len(messages)

(* C2: when the read loop ends and no done frame was processed, the
   placeholder of that send is not streaming once sendMessage has returned. *)
C2_EndOfStreamStopsStreaming ==
    [][\A i \in Streams :
          (ReadDone(i) /\ ~streams[i].sawDone) => ~StreamingIn(messages', Placeholder(i))]_vars

(* C3: at most one chat-stream request is in flight at any time. *)
C3_OneRequestInFlight ==
    Cardinality({ i \in Streams : Open(i) }) <= 1

(* C4: every step in which a sendMessage invocation returns (end of stream,
   non-OK status, fetch rejection, read error; malformed frames or not) leaves
   isLoading false, and in that state the guards of sendMessage accept a
   non-empty text. *)
C4_LoadingClearedOnEveryExit ==
    [][\A i \in Streams :
          Settles(i) =>
             /\ isLoading' = FALSE
             /\ ~SendRejected(Prompt, Closure')]_vars

(* C4 witness: an invocation has returned through the catch block, which
   left the error text in its placeholder, and the flag is clear *)
C4_Witness ==
    /\ \E i \in Streams : streams[i].pc = "closed" /\ Shows(messages, Placeholder(i), ErrorText)
    /\ ~isLoading /\ ~crashed

(* C5: when a response of well-formed, whole frames ends and no user action
   happened since the send, the placeholder of that send holds the
   concatenation of the frames' chunks in arrival order, and is not streaming
   if a done frame was among them. *)
C5_ContentIsConcatenation ==
    [][\A i \in Streams :
          (ReadDone(i) /\ streams[i].quiet /\ ~streams[i].split /\ streams[i].bad = "none") =>
             /\ Shows(messages', Placeholder(i), streams[i].expected)
             /\ streams[i].sawDone => ~StreamingIn(messages', Placeholder(i))]_vars

(* C6: a displayed message that is not streaming keeps its content in every
   step, and a stream event of invocation i changes no displayed message
   other than the placeholder of invocation i. *)
C6_FinalizedContentImmutable ==
    [][/\ \A k \in 1..Len(messages) :
             ~messages[k].isStreaming =>
                \A j \in 1..Len(messages') :
                   messages'[j].id = messages[k].id =>
                      messages'[j].content = messages[k].content
       /\ \A i \in Streams :
             ((\E ps \in PieceSeqs : ReadChunk(i, ps)) \/ Fails(i)) =>
                OthersUntouched(Placeholder(i))]_vars

(* C7: when the request of invocation i fails, the placeholder of that send
   shows the fixed error text and is not streaming, isLoading is false, the
   page is still up, and no other message is modified. *)
C7_FailureMarksPlaceholder ==
    [][\A i \in Streams :
          Fails(i) =>
             /\ Shows(messages', Placeholder(i), ErrorText)
             /\ ~StreamingIn(messages', Placeholder(i))
             /\ isLoading' = FALSE
             /\ crashed' = FALSE
             /\ OthersUntouched(Placeholder(i))]_vars

BadReads == { ps \in PieceSeqs : HasKind(ps, "bad") }

(* C8: a read that contains malformed "data: " lines has the effect of the
   same read without them: a read of malformed lines only changes neither the
   messages nor the tool status nor the loading flag, the well-formed frames
   around a malformed line are applied in order, and the invocation goes on
   reading. *)
C8_MalformedLineIgnored ==
    [][(linesSent' # linesSent \/ crashed') =>
          \A i \in { j \in Streams : streams[j].pc = "reading" } : \A ps \in BadReads :
             ReadChunk(i, ps) =>
                LET w == ProcessLines([messages |-> messages, toolStatus |-> toolStatus,
                                       crashed |-> FALSE], StripBad(ps))
                IN IF w.crashed THEN crashed'
                   ELSE /\ messages' = w.messages
                        /\ toolStatus' = w.toolStatus
                        /\ isLoading' = isLoading
                        /\ ~crashed'
                        /\ streams'[i].pc = "reading"]_vars

(* C8 witness: a response in which a frame with a chunk followed a malformed
   line is still being read, and its placeholder shows the chunks of its
   well-formed frames *)
C8_Witness ==
    \E i \in Streams :
       /\ streams[i].pc = "reading" /\ streams[i].bad = "followed" /\ ~streams[i].split
       /\ streams[i].expected # <<>>
       /\ Shows(messages, Placeholder(i), streams[i].expected)

(* C9: when a response ends and no user action happened since the send, the
   placeholder holds the chunks of all the lines of the body, however the
   body was cut into reads. *)
C9_SegmentationIndependent ==
    [][\A i \in Streams :
          (ReadDone(i) /\ streams[i].quiet) =>
             Shows(messages', Placeholder(i), streams[i].expected)]_vars

(* C10: no reachable sequence of user actions and stream events ends in an
   uncaught exception. *)
C10_NoCrash == ~crashed

(* The displayed list ends with a user message of content t followed by a
   fresh assistant placeholder *)
EndsWithSend(msgs, t) ==
    /\ Len(msgs) >= 2
    /\ msgs[Len(msgs) - 1].role = "user" /\ msgs[Len(msgs) - 1].content = t
    /\ msgs[Len(msgs)].role = "assistant" /\ msgs[Len(msgs)].content = <<>>
    /\ msgs[Len(msgs)].isStreaming

(* C11: a retry offered on assistant message k that follows a user message
   removes messages k-1 and after, and when its timer fires the send flow runs
   with that user message's text: the list then ends with a new user message
   of the same text and a new assistant placeholder. *)
C11_RetryResubmits ==
    [][/\ \A k \in 1..Len(messages) :
             (retryMessage(k) /\ k >= 2 /\ messages[k - 1].role = "user") =>
                messages' = SubSeq(messages, 1, k - 2)
       /\ RetryTimer => EndsWithSend(messages', Head(timers).text)]_vars

(* The step is a sendMessage call that passed its guards *)
Sends == Len(streams') = Len(streams) + 1

(* The text of the sendMessage call of this step: the retry timer's override
   text, or the trimmed input *)
SentText ==
    IF timers' # timers
    THEN SendText(Head(timers).text, Head(timers).cl)
    ELSE SendText(<<>>, Closure)

(* C12: a sendMessage that passes its guards appends a user message with the
   prompt text and an empty streaming assistant message to the end of the
   list, leaves the earlier messages as they were, and, if no chat is current,
   creates a chat titled with the first 40 characters of the prompt and makes
   it current. *)
C12_SendAppendsTwo ==
    [][Sends =>
          /\ Len(messages') = Len(messages) + 2
          /\ SubSeq(messages', 1, Len(messages)) = messages
          /\ EndsWithSend(messages', SentText)
          /\ ~messages'[Len(messages') - 1].isStreaming
          /\ currentChatId = Null =>
                /\ Len(chats') = Len(chats) + 1
                /\ chats'[1].id \notin ChatIds
                /\ chats'[1].title = Slice(SentText, TitleLen)
                /\ currentChatId' = chats'[1].id]_vars

(* The sendMessage call of this step has no text and no image: cl is the
   closure it runs in and override its argument *)
NothingToSend(override, cl) ==
    override = <<>> /\ Trim(cl.input) = <<>> /\ ~cl.imageFile

(* C13: a sendMessage call with no text (empty or white-space input, no
   override text) and no attached image starts no request and changes neither
   messages, chats, currentChatId, input, isLoading nor toolStatus. *)
C13_EmptySubmitNoChange ==
    [][((Submit /\ NothingToSend(<<>>, Closure))
          \/ (RetryTimer /\ NothingToSend(Head(timers).text, Head(timers).cl))) =>
             UNCHANGED <<messages, chats, currentChatId, input, isLoading, toolStatus,
                         streams, imageFile, created>>]_vars

(* C13 witness: the page is idle with white space in the textarea and no
   image attached, where Enter calls sendMessage() and nothing is sent *)
C13_Witness ==
    /\ mounted /\ ~crashed /\ ~isLoading /\ ~imageFile
    /\ input = <<" ">>
    /\ ENABLED (Submit /\ NothingToSend(<<>>, Closure))
    /\ streams = <<>>

SearchReads == { ps \in PieceSeqs : HasSearch(ps) }

(* C14: a read in which a frame with search_used is processed leaves the tool
   status set; every step in which an invocation returns (end of stream or
   catch) clears it; and whenever no request is in flight the tool status is
   null. *)
C14_ToolStatusSetAndCleared ==
    [][/\ (linesSent' # linesSent) =>
             \A i \in { j \in Streams : streams[j].pc = "reading" } : \A ps \in SearchReads :
                ReadChunk(i, ps) => toolStatus' = Searching
       /\ \A i \in Streams : Settles(i) => toolStatus' = NoTool
       /\ (~crashed' /\ \A i \in 1..Len(streams') : streams'[i].pc = "closed") =>
             toolStatus' = NoTool]_vars

(* C14 witness: an invocation that had shown the search status has returned,
   no request is in flight and the status is cleared *)
C14_Witness ==
    /\ \E i \in Streams : streams[i].pc = "closed" /\ streams[i].searched
    /\ \A i \in Streams : ~Open(i)
    /\ toolStatus = NoTool /\ ~crashed

(* C15: once the app has mounted, currentChatId is never null and names a
   chat of the chat list. *)
C15_OneCurrentChat ==
    mounted => (currentChatId # Null /\ currentChatId \in ChatIds)

(* C16: while the current model has supports_vision = false the attach
   action is not enabled and no image is pending for the next send. *)
C16_NoImageWithoutVision ==
    ~MODELS[currentModel].supports_vision => (~ENABLED HandleImageUpload /\ ~imageFile)

(* The argument has no fenced code block and no table row *)
NoFenceNoTable(content) ==
    ~Contains(Raw(content), <<Backquote, Backquote, Backquote>>) /\ ~Contains(Raw(content), <<"|">>)

AngleBrackets == { "<", ">" }

(* C17: for an argument without fenced code and without a table, every "<"
   and ">" of the result was written by the formatter: no "<" or ">" of the
   argument is in the result as it was. *)
C17_NoRawAngleBrackets ==
    (formatted.done /\ NoFenceNoTable(formatted.content)) =>
        \A k \in 1..Len(formatted.html) :
           formatted.html[k].c \in AngleBrackets => ~formatted.html[k].raw

(* The opening tags of block-level elements *)
BlockTags ==
    { <<"<", "p", ">">>, <<"<", "h", "1", ">">>, <<"<", "h", "2", ">">>, <<"<", "h", "3", ">">>, <<"<", "u", "l", ">">>, <<"<", "l", "i">>, <<"<", "t", "a", "b", "l", "e">>, <<"<", "d", "i", "v">>,
      <<"<", "b", "l", "o", "c", "k", "q", "u", "o", "t", "e", ">">>, <<"<", "h", "r", " ", "/", ">">> }

(* C18: for a non-empty argument without fenced code and without a table,
   the result is non-empty and starts with a block-level tag. *)
C18_NonEmptyBlockWrapped ==
    (formatted.done /\ formatted.content # <<>> /\ NoFenceNoTable(formatted.content)) =>
        /\ formatted.html # <<>>
        /\ \E t \in BlockTags : At(formatted.html, 1, t)

(* C19: for a fenced block with language tag L and body B after the text
   pre, the result has the text pre, then the code block, whose header is
   labelled L and whose code element holds B with only "<" and ">" escaped. *)
C19_FenceRoundTrip ==
    \A f \in FenceCases :
       (formatted.done /\ formatted.content = FenceText(f)) =>
          /\ At(formatted.html, 1, <<"<", "p", ">">> \o f.pre \o <<"<", "d", "i", "v", " ", "c", "l", "a", "s", "s", "=", "\"", "c", "o", "d", "e", "-", "b", "l", "o", "c", "k", "-", "w", "r", "a", "p", "p", "e", "r", "\"", ">">>)
          /\ Contains(formatted.html,
                      <<"<", "s", "p", "a", "n", " ", "c", "l", "a", "s", "s", "=", "\"", "c", "o", "d", "e", "-", "l", "a", "n", "g", "\"", ">">>
                         \o (IF f.lang # <<>> THEN f.lang ELSE <<"c", "o", "d", "e">>) \o <<"<", "/", "s", "p", "a", "n", ">">>)
          /\ Contains(formatted.html,
                      <<"<", "c", "o", "d", "e", ">">> \o Chars(EscapeAngles(Raw(f.body))) \o <<"<", "/", "c", "o", "d", "e", ">">>)

(* The number of places where p stands in s *)
Count(s, p) == Cardinality({ j \in 1..Len(s) : At(s, j, p) })

(* C20: the three lines |a|b|, |---|---|, |1|2|, the last one with or without
   a trailing newline, give one table with the header row a, b and the data
   row 1, 2 and no row for the separator; one pipe-delimited line alone gives
   no table. *)
C20_TableDetection ==
    formatted.done =>
       /\ formatted.content \in { TableWithNewline, TableWithoutNewline } =>
             /\ Count(formatted.html, <<"<", "t", "a", "b", "l", "e">>) = 1
             /\ Count(formatted.html, <<"<", "t", "r", ">">>) = 2
             /\ Contains(formatted.html,
                         <<"<", "t", "r", ">", "<", "t", "h", ">", "a", "<", "/", "t", "h", ">", "<", "t", "h", ">", "b", "<", "/", "t", "h", ">", "<", "/", "t", "r", ">", "<", "t", "r", ">", "<", "t", "d", ">", "1", "<", "/", "t", "d", ">", "<", "t", "d", ">", "2", "<", "/", "t", "d", ">", "<", "/", "t", "r", ">", "<", "/", "t", "a", "b", "l", "e", ">">>)
       /\ formatted.content \in { LonePipeLine, LonePipeLine \o <<"\n">> } => ~Contains(formatted.html, <<"<", "t", "a", "b", "l", "e">>)

(* The closing tags of the blocks after which a line break is suppressed *)
BlockClosers ==
    { <<"<", "/", "h", "1", ">">>, <<"<", "/", "h", "2", ">">>, <<"<", "/", "h", "3", ">">>, <<"<", "h", "r", " ", "/", ">">>, <<"<", "/", "t", "a", "b", "l", "e", ">">>, <<"<", "/", "u", "l", ">">>, <<"<", "/", "b", "l", "o", "c", "k", "q", "u", "o", "t", "e", ">">> }

(* C21: in the result no "<br>" stands immediately after the closing tag of
   a heading, rule, table, list or quote. *)
C21_NoBreakAfterBlock ==
    formatted.done =>
       \A t \in BlockClosers : ~Contains(formatted.html, t \o <<"<", "b", "r", ">">>)

(* The block-level elements the formatter writes: the opening tag and the
   text that closes the element; the rule is one tag *)
BlockElements ==
    { [open |-> <<"<", "p", ">">>, close |-> <<"<", "/", "p", ">">>],
      [open |-> <<"<", "h", "1", ">">>, close |-> <<"<", "/", "h", "1", ">">>],
      [open |-> <<"<", "h", "2", ">">>, close |-> <<"<", "/", "h", "2", ">">>],
      [open |-> <<"<", "h", "3", ">">>, close |-> <<"<", "/", "h", "3", ">">>],
      [open |-> <<"<", "u", "l", ">">>, close |-> <<"<", "/", "u", "l", ">">>],
      [open |-> <<"<", "b", "l", "o", "c", "k", "q", "u", "o", "t", "e", ">">>, close |-> <<"<", "/", "b", "l", "o", "c", "k", "q", "u", "o", "t", "e", ">">>],
      [open |-> <<"<", "t", "a", "b", "l", "e", " ", "c", "l", "a", "s", "s", "=", "\"", "m", "s", "g", "-", "t", "a", "b", "l", "e", "\"", ">">>, close |-> <<"<", "/", "t", "a", "b", "l", "e", ">">>],
      [open |-> <<"<", "d", "i", "v", " ", "c", "l", "a", "s", "s", "=", "\"", "c", "o", "d", "e", "-", "b", "l", "o", "c", "k", "-", "w", "r", "a", "p", "p", "e", "r", "\"", ">">>, close |-> <<"<", "/", "p", "r", "e", ">", "\n", " ", " ", " ", " ", " ", " ", " ", " ", " ", " ", " ", " ", "<", "/", "d", "i", "v", ">">>],
      [open |-> <<"<", "h", "r", " ", "/", ">">>, close |-> <<>>] }

(* The position after the element that opens at j of s, 0 when no element
   opens there or the one that does is not closed *)
ElementEnd(s, j) ==
    LET E == { e \in BlockElements : At(s, j, e.open) }
    IN IF E = {} THEN 0
       ELSE LET e == Only(E)
                k == IndexOf(s, e.close, j + Len(e.open))
            IN IF k = 0 THEN 0 ELSE k + Len(e.close)

(* The outermost block-level elements of s from position j on, in order *)
RECURSIVE BlocksFrom(_, _)
BlocksFrom(s, j) ==
    LET S == { k \in j..Len(s) : ElementEnd(s, k) # 0 }
    IN IF S = {} THEN <<>>
       ELSE LET k == Least(S)
            IN <<Chars(SubSeq(s, k, ElementEnd(s, k) - 1))>> \o BlocksFrom(s, ElementEnd(s, k))

Blocks(s) == BlocksFrom(s, 1)

(* The elements of a are among those of b, in the same order *)
RECURSIVE IsSubsequence(_, _)
IsSubsequence(a, b) ==
    IF a = <<>> THEN TRUE
    ELSE IF b = <<>> THEN FALSE
    ELSE IF Head(a) = Head(b) THEN IsSubsequence(Tail(a), Tail(b))
    ELSE IsSubsequence(a, Tail(b))

(* The proper prefixes of s that end with a blank line *)
BoundaryPrefixes(s) ==
    { SubSeq(s, 1, n) : n \in { m \in 2..(Len(s) - 1) : s[m - 1] = "\n" /\ s[m] = "\n" } }

(* C22: for every prefix P of the argument S that ends with a blank line,
   the block-level elements of formatMessage(P) are among the block-level
   elements of formatMessage(S), in the same order and with the same
   content. *)
C22_CompletedBlocksStable ==
    formatted.done =>
       \A P \in BoundaryPrefixes(formatted.content) :
          \A before \in { Blocks(formatMessage(Raw(P))) } :
             IsSubsequence(before, Blocks(formatted.html))

(* A list opened before position j of s is still open there *)
InsideList(s, j) ==
    \E u \in 1..(j - 1) :
       /\ At(s, u, <<"<", "u", "l", ">">>)
       /\ \A k \in (u + 1)..(j - 1) : ~At(s, k, <<"<", "/", "u", "l", ">">>)

(* C23: every list item of the result, from an unordered or an ordered item,
   lies inside a list tag, and list items that follow one another share one
   list tag. *)
C23_ListItemsWrapped ==
    formatted.done =>
       /\ \A j \in 1..Len(formatted.html) :
             At(formatted.html, j, <<"<", "l", "i">>) => InsideList(formatted.html, j)
       /\ ~Contains(formatted.html, <<"<", "/", "u", "l", ">", "<", "u", "l", ">">>)
       /\ ~Contains(formatted.html, <<"<", "/", "u", "l", ">", "<", "b", "r", ">", "<", "u", "l", ">">>)

(* C30: the paragraph tags of the result are balanced: before every position
   at least as many "<p>" as "</p>" have been written, and in the whole
   result as many. *)
C30_BalancedParagraphs ==
    formatted.done =>
       LET html == formatted.html
           Opened(k) == Cardinality({ j \in 1..k : At(html, j, <<"<", "p", ">">>) })
           ClosedTo(k) == Cardinality({ j \in 1..k : At(html, j, <<"<", "/", "p", ">">>) })
       IN /\ \A k \in 1..Len(html) : ClosedTo(k) <= Opened(k)
          /\ ClosedTo(Len(html)) = Opened(Len(html))

(* C24: the displayed list has even length and alternates user and
   assistant, user first, and every assistant message stands right after the
   user message of the send that created it. *)
C24_RolesAlternate ==
    /\ Len(messages) % 2 = 0
    /\ \A k \in 1..Len(messages) :
          IF k % 2 = 1
          THEN messages[k].role = "user"
          ELSE /\ messages[k].role = "assistant"
               /\ messages[k - 1].id = messages[k].id - 1

(* C24 witness: the list shows two exchanges that were not sent one right
   after the other: the exchange sent between them was removed by a retry or
   belongs to another chat *)
C24_Witness ==
    /\ Len(messages) = 4
    /\ messages[3].id > messages[2].id + 1
    /\ ~crashed

(* The messages stored in the chat list chs for the chat id *)
StoredMessages(chs, id) == chs[FindChat(chs, id)].messages

(* C25: a new chat started by the button, the logo or the shortcut while a
   chat with displayed messages is current leaves these messages stored in
   that chat's entry of the chat list. *)
C25_NewChatSavesMessages ==
    [][((NewChat \/ GoHome \/ NewChatShortcut) /\ currentChatId \in ChatIds /\ messages # <<>>) =>
          /\ \E i \in 1..Len(chats') : chats'[i].id = currentChatId
          /\ StoredMessages(chats', currentChatId) = messages]_vars

(* C26: whenever messages are displayed, currentChatId names a chat of the
   chat list. *)
C26_MessagesBelongToChat ==
    messages # <<>> => currentChatId \in ChatIds

(* The chat with the given id in the chat list chs *)
ChatOf(chs, id) == chs[FindChat(chs, id)]

(* C27: when no reply is loading, a switch from the current chat a to another
   chat b displays the messages stored for b and leaves b's entry and all
   entries other than a's as they were; a's entry then holds the list that
   was displayed, which is what a switch back to a displays, and if that list
   is not empty a's lastMessage is the first 100 characters of its last
   message. *)
C27_SwitchRoundTrip ==
    [][\A b \in ChatIds :
          (SwitchChat(b) /\ ~isLoading /\ currentChatId \in ChatIds /\ b # currentChatId) =>
             /\ messages' = ChatOf(chats, b).messages
             /\ Len(chats') = Len(chats)
             /\ \A i \in 1..Len(chats) : chats[i].id # currentChatId => chats'[i] = chats[i]
             /\ ChatOf(chats', currentChatId).messages = messages
             /\ messages # <<>> =>
                   ChatOf(chats', currentChatId).lastMessage =
                      <<Slice(messages[Len(messages)].content, PreviewLen)>>]_vars

(* C28: the end of a response without a transport error clears the attached
   image; a failed send (fetch rejection, non-OK status, read error) leaves
   it as it was; and no other step of a send changes it: the image changes
   only when a response ends or the user attaches or removes one. *)
C28_ImageClearedOnSuccessOnly ==
    [][/\ \A i \in Streams : ReadDone(i) => imageFile' = FALSE
       /\ \A i \in Streams : Fails(i) => imageFile' = imageFile
       /\ imageFile' # imageFile =>
             \/ HandleImageUpload
             \/ RemoveImage
             \/ \E i \in Streams : ReadDone(i)]_vars

(* C28 witness: a first send has failed and shows the error text; a second
   send, of the image alone (its user message has no text), has ended
   without an error; no image is attached any more *)
C28_Witness ==
    /\ Len(streams) = 2 /\ \A i \in Streams : streams[i].pc = "closed"
    /\ Shows(messages, Placeholder(1), ErrorText)
    /\ Shows(messages, Placeholder(2) - 1, <<>>)
    /\ ~Shows(messages, Placeholder(2), ErrorText)
    /\ ~imageFile /\ ~isLoading /\ ~crashed

(* C29: once mounted the chat list is never empty, and a deletion that
   removes every chat leaves one chat, created by this step, titled
   "New Chat", with no messages, which is current, and an empty displayed
   list. *)
C29_EmptyListGetsNewChat ==
    [][/\ mounted' => chats' # <<>>
       /\ \A sel \in SUBSET ChatIds :
             ((DeleteSelectedChats(sel) \/ \E c \in sel : DeleteChat(c) /\ sel = {c})
                /\ sel = ChatIds) =>
                /\ Len(chats') = 1
                /\ chats'[1] = Chat(chats'[1].id, NewChatTitle)
                /\ chats'[1].id \notin ChatIds
                /\ currentChatId' = chats'[1].id
                /\ messages' = <<>>]_vars

(* C29 witness: the chat that held a conversation was deleted as the last
   chat of the list, and the list holds the chat created in its place *)
C29_Witness ==
    /\ mounted /\ ~crashed
    /\ streams # <<>>
    /\ Len(chats) = 1 /\ chats[1].id = 2 /\ created = 2
    /\ chats[1] = Chat(2, NewChatTitle)
    /\ currentChatId = 2 /\ messages = <<>>

====
